---- MODULE Spec2Model ----
(***************************************************************************)
(* Vacancy search utility: the Vacancy record model and its filter and     *)
(* comparison predicates (src/src/integration.py), the JSON and CSV        *)
(* storage backends (src/src/file_manager.py) and the command-line         *)
(* workflow that chains them (src/main.py).                                *)
(*                                                                         *)
(* Python values are encoded so that every field has one TLA+ type:        *)
(*   None            the empty set {}                                      *)
(*   a text / an int the singleton {x}                                     *)
(*   a salary dict   the singleton {[from |-> ..., to |-> ...]}            *)
(* File contents are kept as the text the encoders write: JSON tokens for  *)
(* the JSON backend, cells for the CSV backend.                            *)
(***************************************************************************)
EXTENDS Integers, Sequences, FiniteSets, TLC

VARIABLES
    \* ---- storage backend (file_manager.py)
    backend,        \* class of the manager: "json" | "csv"
    exists,         \* whether self.output exists on disk
    header,         \* CSV header row (sequence of keys); <<>> for JSON
    rows,           \* persisted entries, as written (tokens / cells)
    err,            \* outcome of the last call: "ok" or the exception raised
    log,            \* calls made since the last successful save
    \* ---- workflow (main.py)
    pc,
    hh_vacancies,
    vacancies_list,
    filters,
    filtered_vacancies,
    top_vacancies,
    top_filtered_vacancies,
    \* ---- comparison (Vacancy.__gt__ / __lt__)
    cmp_self,
    cmp_other,
    gt_result,
    lt_result

storageVars == <<backend, exists, header, rows, err, log>>
flowVars == <<pc, hh_vacancies, vacancies_list, filters, filtered_vacancies,
              top_vacancies, top_filtered_vacancies>>
cmpVars == <<cmp_self, cmp_other, gt_result, lt_result>>
vars == <<backend, exists, header, rows, err, log,
          pc, hh_vacancies, vacancies_list, filters, filtered_vacancies,
          top_vacancies, top_filtered_vacancies,
          cmp_self, cmp_other, gt_result, lt_result>>

(***************************************************************************)
(* Bounds                                                                  *)
(***************************************************************************)
MaxItems == 2       \* items in a raw payload
MaxTop == 3         \* the requested count ranges over -MaxTop..MaxTop
MaxSave == 2        \* records handed to one save call
MaxLog == 3         \* calls followed after a save

(***************************************************************************)
(* Python values                                                           *)
(***************************************************************************)
None == {}
Some(x) == {x}
The(o) == CHOOSE x \in o : TRUE

\* Python truthiness of None | str and of None | int
TruthyText(o) == o # None /\ The(o) # ""
TruthyInt(o) == o # None /\ The(o) # 0

SeqsUpTo(S, n) == UNION {[1..k -> S] : k \in 0..n}

Mapping(f, t) == Some([from |-> f, to |-> t])

(***************************************************************************)
(* Record model: Vacancy and its serialization (integration.py)            *)
(***************************************************************************)
\* Vacancy.__init__: the five slots
Vacancy(name, url, salary, description, requirements) ==
    [name |-> name, _url |-> url, salary |-> salary,
     description |-> description, requirements |-> requirements]

\* Vacancy.serialized_vacancy: the dict with the five canonical keys
serialized_vacancy(vacancy) ==
    [name |-> vacancy.name, url |-> vacancy._url, salary |-> vacancy.salary,
     description |-> vacancy.description, requirements |-> vacancy.requirements]

\* Vacancy.serialized_vacancies
serialized_vacancies(vacancies) ==
    [i \in 1..Len(vacancies) |-> serialized_vacancy(vacancies[i])]

\* key order of the serialized dict
KeyOrder == <<"name", "url", "salary", "description", "requirements">>

(***************************************************************************)
(* Value domains of the model                                              *)
(***************************************************************************)
Texts == {"", "a", "b", "u", "d", "r"}
OptTexts == {None} \cup {Some(s) : s \in Texts}
SalaryNums == {0, 1, 2}
OptNums == {None} \cup {Some(n) : n \in SalaryNums}
Salaries == {None} \cup {Mapping(f, t) : f \in OptNums, t \in OptNums}

(***************************************************************************)
(* JSON encoding: json.dump / json.load of a list of serialized records    *)
(***************************************************************************)
json_dump_text(o) == IF o = None THEN "null" ELSE "\"" \o The(o) \o "\""
json_dump_num(o) == IF o = None THEN "null" ELSE ToString(The(o))
json_dump_salary(o) ==
    IF o = None THEN "null"
    ELSE "{\"from\": " \o json_dump_num(The(o).from)
         \o ", \"to\": " \o json_dump_num(The(o).to) \o "}"
json_dump_record(d) ==
    [name |-> json_dump_text(d.name), url |-> json_dump_text(d.url),
     salary |-> json_dump_salary(d.salary),
     description |-> json_dump_text(d.description),
     requirements |-> json_dump_text(d.requirements)]
json_dump(data) == [i \in 1..Len(data) |-> json_dump_record(data[i])]

json_load_text(tok) == CHOOSE o \in OptTexts : json_dump_text(o) = tok
json_load_salary(tok) == CHOOSE o \in Salaries : json_dump_salary(o) = tok
json_load_record(row) ==
    [name |-> json_load_text(row.name), url |-> json_load_text(row.url),
     salary |-> json_load_salary(row.salary),
     description |-> json_load_text(row.description),
     requirements |-> json_load_text(row.requirements)]
json_load(doc) == [i \in 1..Len(doc) |-> json_load_record(doc[i])]

(***************************************************************************)
(* CSV encoding: csv.DictWriter writes None as an empty cell and any other *)
(* value as str(value); csv.DictReader returns every cell as text.         *)
(***************************************************************************)
py_str_num(o) == IF o = None THEN "None" ELSE ToString(The(o))
csv_cell_text(o) == IF o = None THEN "" ELSE The(o)
csv_cell_salary(o) ==
    IF o = None THEN ""
    ELSE "{'from': " \o py_str_num(The(o).from)
         \o ", 'to': " \o py_str_num(The(o).to) \o "}"
csv_row(d) ==
    [name |-> csv_cell_text(d.name), url |-> csv_cell_text(d.url),
     salary |-> csv_cell_salary(d.salary),
     description |-> csv_cell_text(d.description),
     requirements |-> csv_cell_text(d.requirements)]

\* Python ==  between a cell (str) and a record value (None | str | dict)
py_eq_cell_text(cell, o) == o # None /\ cell = The(o)
py_eq_cell_salary(cell, o) == FALSE
\* Python ==  between a row read back by DictReader and a record
py_eq_row(row, d) ==
    /\ py_eq_cell_text(row.name, d.name)
    /\ py_eq_cell_text(row.url, d.url)
    /\ py_eq_cell_salary(row.salary, d.salary)
    /\ py_eq_cell_text(row.description, d.description)
    /\ py_eq_cell_text(row.requirements, d.requirements)

\* list.remove(x): drops the first element equal to x
list_remove(s, x) ==
    LET i == CHOOSE k \in 1..Len(s) : s[k] = x /\ \A j \in 1..(k - 1) : s[j] # x
    IN  [k \in 1..(Len(s) - 1) |-> IF k < i THEN s[k] ELSE s[k + 1]]

InSeq(s, x) == \E k \in 1..Len(s) : s[k] = x
Last(s) == s[Len(s)]

(***************************************************************************)
(* Storage backends (file_manager.py)                                      *)
(***************************************************************************)
StoreRecords ==
    { serialized_vacancy(Vacancy(Some("a"), Some("u"), Mapping(Some(1), Some(2)), Some("d"), Some("r"))),
      serialized_vacancy(Vacancy(Some("b"), None, None, None, None)),
      serialized_vacancy(Vacancy(Some("a"), Some("u"), Mapping(Some(1), None), None, Some("r"))) }

FileUnchanged == UNCHANGED <<exists, header, rows>>

\* JsonFileManager.save: open(..., 'w') and json.dump(data)
JsonFileManager_save(data) ==
    /\ exists' = TRUE
    /\ header' = <<>>
    /\ rows' = json_dump(data)
    /\ err' = "ok"

\* add_object that starts from an empty collection when the file is missing
JsonFileManager_add_object_implicit_empty(data) ==
    LET file_data == Append(IF exists THEN json_load(rows) ELSE <<>>, data)
    IN  /\ exists' = TRUE
        /\ rows' = json_dump(file_data)
        /\ err' = "ok"
        /\ UNCHANGED header

\* JsonFileManager.add_object: open(..., 'r'), json.load, append, rewrite
JsonFileManager_add_object(data) ==
    IF ~exists
    THEN /\ err' = "FileNotFoundError"
         /\ FileUnchanged
    ELSE LET file_data == Append(json_load(rows), data)
         IN  /\ rows' = json_dump(file_data)
             /\ err' = "ok"
             /\ UNCHANGED <<exists, header>>

\* JsonFileManager.delete_object: open(..., 'r'), json.load, list.remove, rewrite
JsonFileManager_delete_object(data) ==
    IF ~exists
    THEN /\ err' = "FileNotFoundError"
         /\ FileUnchanged
    ELSE LET file_data == json_load(rows)
         IN  IF ~InSeq(file_data, data)
             THEN /\ err' = "ValueError"
                  /\ FileUnchanged
             ELSE /\ rows' = json_dump(list_remove(file_data, data))
                  /\ err' = "ok"
                  /\ UNCHANGED <<exists, header>>

\* save that opens (truncates) the file before it derives the header
CsvFileManager_save_open_first(data) ==
    IF Len(data) = 0
    THEN /\ exists' = TRUE
         /\ header' = <<>>
         /\ rows' = <<>>
         /\ err' = "IndexError"
    ELSE /\ exists' = TRUE
         /\ header' = KeyOrder
         /\ rows' = [i \in 1..Len(data) |-> csv_row(data[i])]
         /\ err' = "ok"

\* CsvFileManager.save: data[0].keys() is evaluated before the file is opened
CsvFileManager_save(data) ==
    IF Len(data) = 0
    THEN /\ err' = "IndexError"
         /\ FileUnchanged
    ELSE /\ exists' = TRUE
         /\ header' = KeyOrder
         /\ rows' = [i \in 1..Len(data) |-> csv_row(data[i])]
         /\ err' = "ok"

\* CsvFileManager.add_object: read rows and fieldnames, rewrite header, rows, data
CsvFileManager_add_object(data) ==
    IF ~exists
    THEN /\ err' = "FileNotFoundError"
         /\ FileUnchanged
    ELSE LET fieldnames == header
         IN  /\ header' = fieldnames
             /\ rows' = Append(rows, csv_row(data))
             /\ err' = "ok"
             /\ UNCHANGED exists

\* CsvFileManager.delete_object: keep the rows with row != data, rewrite
CsvFileManager_delete_object(data) ==
    IF ~exists
    THEN /\ err' = "FileNotFoundError"
         /\ FileUnchanged
    ELSE LET fieldnames == header
         IN  /\ header' = fieldnames
             /\ rows' = SelectSeq(rows, LAMBDA row : ~py_eq_row(row, data))
             /\ err' = "ok"
             /\ UNCHANGED exists

Call(op, data) == [op |-> op, data |-> data]

\* a call of file_manager.save(data) on the constructed manager
Save ==
    \E data \in SeqsUpTo(StoreRecords, MaxSave) :
        /\ IF backend = "json" THEN JsonFileManager_save(data)
                               ELSE CsvFileManager_save(data)
        /\ IF err' = "ok"
           THEN log' = <<Call("save", data)>>
           ELSE /\ Len(log) < MaxLog
                /\ log' = Append(log, Call("save", data))
        /\ UNCHANGED backend

\* a call of file_manager.add_object(data)
AddObject ==
    \E data \in StoreRecords :
        /\ Len(log) < MaxLog
        /\ IF backend = "json" THEN JsonFileManager_add_object(data)
                               ELSE CsvFileManager_add_object(data)
        /\ log' = Append(log, Call("add_object", <<data>>))
        /\ UNCHANGED backend

\* a call of file_manager.delete_object(data)
DeleteObject ==
    \E data \in StoreRecords :
        /\ Len(log) < MaxLog
        /\ IF backend = "json" THEN JsonFileManager_delete_object(data)
                               ELSE CsvFileManager_delete_object(data)
        /\ log' = Append(log, Call("delete_object", <<data>>))
        /\ UNCHANGED backend

\* values of the variables a specification does not use
FlowIdle ==
    /\ pc = "idle"
    /\ hh_vacancies = [items |-> <<>>]
    /\ vacancies_list = <<>>
    /\ filters = None
    /\ filtered_vacancies = <<>>
    /\ top_vacancies = 0
    /\ top_filtered_vacancies = <<>>
CmpIdle ==
    /\ cmp_self = None
    /\ cmp_other = None
    /\ gt_result = None
    /\ lt_result = None
StorageIdle ==
    /\ backend = "json"
    /\ exists = FALSE
    /\ header = <<>>
    /\ rows = <<>>
    /\ err = "none"
    /\ log = <<>>

\* BaseFileManager.__init__: a manager of either class, its file not yet written
StorageInit ==
    /\ backend \in {"json", "csv"}
    /\ exists = FALSE
    /\ header = <<>>
    /\ rows = <<>>
    /\ err = "none"
    /\ log = <<>>
    /\ FlowIdle
    /\ CmpIdle

StorageNext ==
    \/ Save /\ UNCHANGED <<flowVars, cmpVars>>
    \/ AddObject /\ UNCHANGED <<flowVars, cmpVars>>
    \/ DeleteObject /\ UNCHANGED <<flowVars, cmpVars>>

SpecStorage == StorageInit /\ [][StorageNext]_vars

(***************************************************************************)
(* Construction from a raw payload (Vacancy.json_to_object)                *)
(***************************************************************************)
\* a raw API item; snippet is None when the item has no "snippet" object
Item(name, url, salary, description, snippet) ==
    [name |-> name, url |-> url, salary |-> salary,
     description |-> description, snippet |-> snippet]
Snippet(requirement) == Some([requirement |-> requirement])

FlowSalaries ==
    { None, Mapping(None, None), Mapping(Some(1), None), Mapping(None, Some(2)),
      Mapping(Some(1), Some(2)), Mapping(Some(0), Some(2)) }

RawItems ==
    { Item(Some("a"), Some("u"), s, None, Snippet(Some("r"))) : s \in FlowSalaries }
    \cup
    { Item(Some("b"), Some("u"), Mapping(Some(1), Some(2)), Some("d"), Snippet(None)),
      Item(None, None, None, None, Snippet(Some("r"))),
      Item(Some("b"), None, Mapping(Some(1), None), Some("d"), None) }

\* vacancy.get("snippet").get("requirement") raises AttributeError on None
json_to_object_raises(vacancies) ==
    \E i \in 1..Len(vacancies.items) : vacancies.items[i].snippet = None

\* Vacancy.json_to_object when no item raises
json_to_object(vacancies) ==
    [i \in 1..Len(vacancies.items) |->
        LET vacancy == vacancies.items[i]
        IN  Vacancy(vacancy.name, vacancy.url, vacancy.salary,
                    vacancy.description, The(vacancy.snippet).requirement)]

(***************************************************************************)
(* Filter engine (Vacancy.is_filter_by_salary, Vacancy.filter_by_fields)   *)
(***************************************************************************)
\* texts that int() accepts, within the range the model uses
ParseRange == -9..9
is_int_text(s) == \E n \in ParseRange : ToString(n) = s
py_int(s) == CHOOSE n \in ParseRange : ToString(n) = s

\* salary = int(salary) if salary else None, ValueError giving None
salary_threshold(salary) ==
    IF ~TruthyText(salary) THEN None
    ELSE IF is_int_text(The(salary)) THEN Some(py_int(The(salary)))
    ELSE None

\* Vacancy.is_filter_by_salary: {TRUE}, {FALSE}, or None when no branch returns
is_filter_by_salary(salary_filter_value, vacancy_salary) ==
    IF ~TruthyInt(salary_filter_value) THEN Some(TRUE)
    ELSE IF vacancy_salary = None THEN Some(FALSE)
    ELSE LET source_salary == The(vacancy_salary).from
             destination_salary == The(vacancy_salary).to
             value == The(salary_filter_value)
         IN  IF TruthyInt(source_salary) /\ ~TruthyInt(destination_salary)
             THEN Some(value >= The(source_salary))
             ELSE IF ~TruthyInt(source_salary) /\ TruthyInt(destination_salary)
             THEN Some(value <= The(destination_salary))
             ELSE IF TruthyInt(source_salary) /\ TruthyInt(destination_salary)
             THEN Some(The(source_salary) <= value /\ value <= The(destination_salary))
             ELSE None

\* truthiness of the value is_filter_by_salary returns
TruthyResult(r) == r = Some(TRUE)

\* (not criterion or field == criterion)
field_passes(criterion, field) == ~TruthyText(criterion) \/ field = criterion

\* the condition of the loop of filter_by_fields, salary already parsed
keeps(vacancy, kwargs, salary) ==
    /\ field_passes(kwargs.name, vacancy.name)
    /\ field_passes(kwargs.url, vacancy._url)
    /\ TruthyResult(is_filter_by_salary(salary, vacancy.salary))
    /\ field_passes(kwargs.description, vacancy.description)
    /\ field_passes(kwargs.requirements, vacancy.requirements)

\* the list the loop of filter_by_fields builds
filtered_by(vacancies, kwargs) ==
    LET salary == salary_threshold(kwargs.salary)
    IN  SelectSeq(vacancies, LAMBDA vacancy : keeps(vacancy, kwargs, salary))

\* filter_by_fields that returns the filtered list as it is
filter_by_fields_no_fallback(vacancies, kwargs) ==
    filtered_by(vacancies, kwargs)

\* Vacancy.filter_by_fields: filtered_vacancies or vacancies
filter_by_fields(vacancies, kwargs) ==
    LET filtered == filtered_by(vacancies, kwargs)
    IN  IF filtered # <<>> THEN filtered ELSE vacancies

\* s[:n]
py_slice_to(s, n) ==
    LET stop == IF n >= 0 THEN (IF n < Len(s) THEN n ELSE Len(s))
                ELSE (IF Len(s) + n > 0 THEN Len(s) + n ELSE 0)
    IN  SubSeq(s, 1, stop)

(***************************************************************************)
(* Workflow (main.get_vacancies)                                           *)
(***************************************************************************)
SalaryTexts == {"", "abc", "-1", "0", "1", "2", "3"}
Criteria ==
    [name : {Some(""), Some("a")},
     url : {None, Some("u")},
     salary : {Some(t) : t \in SalaryTexts},
     description : {Some(""), Some("d")},
     requirements : {Some(""), Some("r")}]

\* hh_api.get_vacancies: the payload the API returns
Fetch ==
    /\ pc = "start"
    /\ \E items \in SeqsUpTo(RawItems, MaxItems) :
           hh_vacancies' = [items |-> items]
    /\ pc' = "fetched"
    /\ UNCHANGED <<vacancies_list, filters, filtered_vacancies, top_vacancies,
                   top_filtered_vacancies>>
    /\ UNCHANGED storageVars

\* vacancies_list = Vacancy.json_to_object(hh_vacancies)
Convert ==
    /\ pc = "fetched"
    /\ IF json_to_object_raises(hh_vacancies)
       THEN /\ pc' = "failed"
            /\ err' = "AttributeError"
            /\ UNCHANGED vacancies_list
       ELSE /\ pc' = "converted"
            /\ vacancies_list' = json_to_object(hh_vacancies)
            /\ UNCHANGED err
    /\ UNCHANGED <<hh_vacancies, filters, filtered_vacancies, top_vacancies,
                   top_filtered_vacancies>>
    /\ UNCHANGED <<backend, exists, header, rows, log>>

\* filtered_vacancies = Vacancy.filter_by_fields(vacancies_list, **filters)
Filter ==
    /\ pc = "converted"
    /\ \E kwargs \in Criteria :
           /\ filters' = Some(kwargs)
           /\ filtered_vacancies' = filter_by_fields(vacancies_list, kwargs)
    /\ pc' = "filtered"
    /\ UNCHANGED <<hh_vacancies, vacancies_list, top_vacancies, top_filtered_vacancies>>
    /\ UNCHANGED storageVars

\* top_filtered_vacancies = filtered_vacancies[:top_vacancies]
Truncate ==
    /\ pc = "filtered"
    /\ \E n \in (-MaxTop)..MaxTop :
           /\ top_vacancies' = n
           /\ top_filtered_vacancies' = py_slice_to(filtered_vacancies, n)
    /\ pc' = "truncated"
    /\ UNCHANGED <<hh_vacancies, vacancies_list, filters, filtered_vacancies>>
    /\ UNCHANGED storageVars

\* JsonFileManager("vacancies.json").save(serialized_vacancies)
Persist ==
    /\ pc = "truncated"
    /\ JsonFileManager_save(serialized_vacancies(top_filtered_vacancies))
    /\ pc' = "done"
    /\ UNCHANGED <<hh_vacancies, vacancies_list, filters, filtered_vacancies,
                   top_vacancies, top_filtered_vacancies>>
    /\ UNCHANGED <<backend, log>>

Init ==
    /\ pc = "start"
    /\ hh_vacancies = [items |-> <<>>]
    /\ vacancies_list = <<>>
    /\ filters = None
    /\ filtered_vacancies = <<>>
    /\ top_vacancies = 0
    /\ top_filtered_vacancies = <<>>
    /\ StorageIdle
    /\ CmpIdle

Next ==
    \/ Fetch /\ UNCHANGED cmpVars
    \/ Convert /\ UNCHANGED cmpVars
    \/ Filter /\ UNCHANGED cmpVars
    \/ Truncate /\ UNCHANGED cmpVars
    \/ Persist /\ UNCHANGED cmpVars

Spec == Init /\ [][Next]_vars

(***************************************************************************)
(* Storage properties                                                      *)
(***************************************************************************)
\* the step is a call of one of ops (the call is the last entry of log')
IsCall(ops) == log' # log /\ Last(log').op \in ops
CallData == Last(log').data

\* whether a persisted entry equals a record, as each backend compares them
StoredEquals(row, d) ==
    IF backend = "json" THEN json_load_record(row) = d ELSE py_eq_row(row, d)

\* a full reload of the file yields exactly the records of seq
ReloadIs(seq) ==
    /\ exists
    /\ Len(rows) = Len(seq)
    /\ \A i \in 1..Len(rows) : StoredEquals(rows[i], seq[i])

\* C2: delete(record) removes every persisted entry equal to the record and
\* keeps the remaining entries in their original order (all of them when no
\* entry equals the record), on either backend.
C2_DeleteRemovesAllEqual ==
    [][ (exists /\ IsCall({"delete_object"}))
        => /\ exists'
           /\ rows' = SelectSeq(rows, LAMBDA row : ~StoredEquals(row, CallData[1])) ]_vars

\* C5: on each backend, save([r1, r2]) reloads as [r1, r2]; then append(r3)
\* reloads as [r1, r2, r3]; then delete(r2) reloads as [r1, r3].
C5_StorageRoundTrip ==
    \A r1 \in StoreRecords, r2 \in StoreRecords, r3 \in StoreRecords :
        /\ log = <<Call("save", <<r1, r2>>)>> => ReloadIs(<<r1, r2>>)
        /\ log = <<Call("save", <<r1, r2>>), Call("add_object", <<r3>>)>>
               => ReloadIs(<<r1, r2, r3>>)
        /\ log = <<Call("save", <<r1, r2>>), Call("add_object", <<r3>>),
                   Call("delete_object", <<r2>>)>>
               => ReloadIs(<<r1, r3>>)

\* C9: on both backends add_object and delete_object on a missing file raise
\* FileNotFoundError, create no file and leave the persisted state unchanged.
C9_MissingFileIsAnError ==
    [][ (~exists /\ IsCall({"add_object", "delete_object"}))
        => /\ err' = "FileNotFoundError"
           /\ ~exists'
           /\ header' = header
           /\ rows' = rows ]_vars

\* add_object then delete_object were called on a CSV manager whose file was
\* never written, and the file is still missing
C9_Witness ==
    /\ backend = "csv"
    /\ ~exists
    /\ Len(log) = 2
    /\ log[1].op = "add_object"
    /\ log[2].op = "delete_object"
    /\ err = "FileNotFoundError"

\* C10: CsvFileManager.save([]) raises and leaves the target file untouched.
C10_CsvSaveEmptyLeavesFile ==
    [][ (backend = "csv" /\ IsCall({"save"}) /\ CallData = <<>>)
        => /\ err' = "IndexError"
           /\ exists' = exists
           /\ header' = header
           /\ rows' = rows ]_vars

\* save([]) was called on a CSV file holding two rows, which are still there
C10_Witness ==
    /\ backend = "csv"
    /\ exists
    /\ Len(rows) = 2
    /\ header = KeyOrder
    /\ Len(log) = 2
    /\ log[1].op = "save"
    /\ log[2] = Call("save", <<>>)
    /\ err = "IndexError"

(***************************************************************************)
(* Workflow properties                                                     *)
(***************************************************************************)
Filtered == pc \in {"filtered", "truncated", "done"}
Truncated == pc \in {"truncated", "done"}

\* the threshold text parses as an integer
ParsesAsInt(salary) == salary # None /\ is_int_text(The(salary))

\* the four documented rules of the salary criterion, for a threshold T
DocSalaryRule(T, S) ==
    IF S = None THEN FALSE
    ELSE LET f == The(S).from
             t == The(S).to
         IN  IF f # None /\ t = None THEN T >= The(f)
             ELSE IF f = None /\ t # None THEN T <= The(t)
             ELSE IF f # None /\ t # None THEN The(f) <= T /\ T <= The(t)
             ELSE FALSE

\* the salary is one of the four cases the documented rules name
DocSalaryCase(S) == S = None \/ The(S).from # None \/ The(S).to # None

\* C1: for a threshold text that parses as an integer T (zero and negative
\* included) the salary criterion passes a record exactly as the four
\* documented rules say.
C1_SalaryCriterionAsDocumented ==
    Filtered =>
        \A i \in 1..Len(vacancies_list) :
            LET kwargs == The(filters)
                S == vacancies_list[i].salary
            IN  (ParsesAsInt(kwargs.salary) /\ DocSalaryCase(S))
                => (TruthyResult(is_filter_by_salary(salary_threshold(kwargs.salary), S))
                    <=> DocSalaryRule(py_int(The(kwargs.salary)), S))

\* C3: json_to_object never fails on an item without optional sub-fields and
\* returns one Vacancy per item in input order, requirements absent when the
\* item has no snippet or the snippet has no requirement.
C3_ConversionNeverFails ==
    pc \notin {"start", "fetched"} =>
        /\ pc # "failed"
        /\ Len(vacancies_list) = Len(hh_vacancies.items)
        /\ \A i \in 1..Len(hh_vacancies.items) :
               LET item == hh_vacancies.items[i]
               IN  vacancies_list[i] =
                       Vacancy(item.name, item.url, item.salary, item.description,
                               IF item.snippet = None THEN None
                               ELSE The(item.snippet).requirement)

\* C4: truncation to N gives the empty sequence for N <= 0, the whole
\* filtered sequence for N >= length and its first N records otherwise.
C4_TruncationClamps ==
    Truncated =>
        top_filtered_vacancies =
            IF top_vacancies <= 0 THEN <<>>
            ELSE IF top_vacancies >= Len(filtered_vacancies) THEN filtered_vacancies
            ELSE SubSeq(filtered_vacancies, 1, top_vacancies)

\* no record of the collection passes the combined filter
NoneKept ==
    \A i \in 1..Len(vacancies_list) :
        ~keeps(vacancies_list[i], The(filters), salary_threshold(The(filters).salary))

DocCriterion(criterion, field) ==
    criterion = None \/ The(criterion) = "" \/ field = criterion
DocSatisfies(vacancy, kwargs) ==
    /\ DocCriterion(kwargs.name, vacancy.name)
    /\ DocCriterion(kwargs.url, vacancy._url)
    /\ DocCriterion(kwargs.description, vacancy.description)
    /\ DocCriterion(kwargs.requirements, vacancy.requirements)
    /\ ParsesAsInt(kwargs.salary)
           => DocSalaryRule(py_int(The(kwargs.salary)), vacancy.salary)

\* C8: when at least one record satisfies the criteria, filter_by_fields
\* returns exactly the records that satisfy every supplied non-empty
\* criterion, in input order; a threshold that does not parse is absent.
C8_FilterKeepsExactlySatisfying ==
    Filtered =>
        LET satisfying ==
                SelectSeq(vacancies_list, LAMBDA v : DocSatisfies(v, The(filters)))
        IN  satisfying # <<>> => filtered_vacancies = satisfying

(***************************************************************************)
(* Comparison predicates (Vacancy.__gt__, Vacancy.__lt__)                  *)
(***************************************************************************)
\* stands for the text the comparisons return when a salary is None
SalaryNotSpecified == "salary not specified"

Returned(vacancy) == [kind |-> "record", record |-> Some(vacancy), text |-> ""]
Sentinel == [kind |-> "text", record |-> None, text |-> SalaryNotSpecified]
\* None > int, int > None and None > None raise TypeError
TypeError == [kind |-> "raise", record |-> None, text |-> "TypeError"]

\* Vacancy.__gt__
__gt__(self, other) ==
    IF self.salary # None /\ other.salary # None
    THEN IF The(self.salary).to = None \/ The(other.salary).to = None
         THEN TypeError
         ELSE IF The(The(self.salary).to) > The(The(other.salary).to)
              THEN Returned(self)
              ELSE Returned(other)
    ELSE Sentinel

\* Vacancy.__lt__
__lt__(self, other) ==
    IF self.salary # None /\ other.salary # None
    THEN IF The(self.salary).to = None \/ The(other.salary).to = None
         THEN TypeError
         ELSE IF The(The(self.salary).to) < The(The(other.salary).to)
              THEN Returned(self)
              ELSE Returned(other)
    ELSE Sentinel

CmpSalaries ==
    { None, Mapping(Some(1), None), Mapping(None, Some(1)),
      Mapping(Some(1), Some(2)), Mapping(None, Some(2)) }
CmpVacancies ==
    { Vacancy(Some(n), Some("u"), s, None, None) : n \in {"a", "b"}, s \in CmpSalaries }

\* evaluation of  self > other
Gt ==
    /\ gt_result = None
    /\ gt_result' = Some(__gt__(The(cmp_self), The(cmp_other)))
    /\ UNCHANGED <<cmp_self, cmp_other, lt_result>>

\* evaluation of  self < other
Lt ==
    /\ lt_result = None
    /\ lt_result' = Some(__lt__(The(cmp_self), The(cmp_other)))
    /\ UNCHANGED <<cmp_self, cmp_other, gt_result>>

CompareInit ==
    /\ cmp_self \in {Some(v) : v \in CmpVacancies}
    /\ cmp_other \in {Some(v) : v \in CmpVacancies}
    /\ gt_result = None
    /\ lt_result = None
    /\ StorageIdle
    /\ FlowIdle

CompareNext ==
    \/ Gt /\ UNCHANGED <<storageVars, flowVars>>
    \/ Lt /\ UNCHANGED <<storageVars, flowVars>>

SpecCompare == CompareInit /\ [][CompareNext]_vars

(***************************************************************************)
(* Comparison properties                                                   *)
(***************************************************************************)
UpperBound(vacancy) == The(The(vacancy.salary).to)

\* C6: with a salary absent on either side both comparisons return the
\* sentinel; with both salaries present greater returns the record whose
\* `to` is larger, less the record whose `to` is smaller, and neither raises.
C6_ComparisonsNeverRaise ==
    LET self == The(cmp_self)
        other == The(cmp_other)
        absent == self.salary = None \/ other.salary = None
    IN  /\ gt_result # None =>
              IF absent THEN The(gt_result) = Sentinel
              ELSE /\ The(gt_result).kind = "record"
                   /\ The(gt_result).record \in {cmp_self, cmp_other}
                   /\ UpperBound(The(The(gt_result).record)) >= UpperBound(self)
                   /\ UpperBound(The(The(gt_result).record)) >= UpperBound(other)
        /\ lt_result # None =>
              IF absent THEN The(lt_result) = Sentinel
              ELSE /\ The(lt_result).kind = "record"
                   /\ The(lt_result).record \in {cmp_self, cmp_other}
                   /\ UpperBound(The(The(lt_result).record)) <= UpperBound(self)
                   /\ UpperBound(The(The(lt_result).record)) <= UpperBound(other)

====
